---- MODULE Spec2Model ----
(***************************************************************************)
(* SMTP-to-Graph relay (src/main.go): the Session handlers Mail, Rcpt,     *)
(* Data, Reset and Logout working on the shared TransactionManager store,  *)
(* the reclamation sweep, and the delivery client's retry loop.            *)
(*                                                                         *)
(* Strings that the code only compares or concatenates are modelled as     *)
(* TLA+ strings; texts the code builds or searches (error messages, body   *)
(* contents) are sequences of tokens, so that string concatenation is \o   *)
(* and strings.Contains is membership of a token.                          *)
(***************************************************************************)
EXTENDS Integers, Sequences, FiniteSets, TLC

(***************************************************************************)
(* Bounds of the model.                                                    *)
(***************************************************************************)
MaxCalls == 5       \* handler calls (Mail, Rcpt, Data, Reset, Logout) in one run
MaxTicks == 1       \* clock advances in one run

(***************************************************************************)
(* Program constants.                                                      *)
(***************************************************************************)
CleanupThreshold == 300   \* 5*time.Minute, in seconds
TickerInterval == 30      \* time.NewTicker(30 * time.Second)

maxRetries == 3
StatusAccepted == 202

Sessions == {"s1"}
TwoSessions == {"s1", "s2"}     \* two connections open at once
Senders == {"a@co"}
Recipients == {"b@co", "B@CO", "c@co"}

\* strings.ToLower / the folding of strings.EqualFold, on the addresses of the
\* model: a@co, b@co, B@CO, c@co, x@co
ToLower(a) == IF a = "B@CO" THEN "b@co" ELSE a
EqualFold(a, b) == ToLower(a) = ToLower(b)

Marker == "MailboxInfoStale"
Contains(err, tok) == \E i \in 1..Len(err) : err[i] = tok

NoErr == <<>>
NoKey == <<>>

\* fmt.Sprintf("%d", n)
Digit(d) == <<"0", "1", "2", "3", "4", "5", "6", "7", "8", "9">>[d + 1]
RECURSIVE FormatInt(_)
FormatInt(n) == IF n < 10 THEN Digit(n) ELSE FormatInt(n \div 10) \o Digit(n % 10)

\* 1 << n
RECURSIVE Shl1(_)
Shl1(n) == IF n = 0 THEN 1 ELSE 2 * Shl1(n - 1)

\* variant: the key does not carry the session id
KeyWithoutSession(sid, from, suffix) == <<"", from, suffix>>

\* fmt.Sprintf("%s:%s:%s", sessionID, from, suffix); the session id is a UUID,
\* 36 characters without a colon, so the first component is recoverable
Key(sid, from, suffix) == <<sid, from, suffix>>

(***************************************************************************)
(* DATA streams.  A stream either fails while being read, or carries a     *)
(* message: wellFormed says whether message.Read accepts its header;       *)
(* subject, from, to, cc are its header fields; parts is the MIME walk of  *)
(* its body in document order (one part when it is not multipart);         *)
(* partErr is the index of the part at which NextPart fails (0: none).     *)
(***************************************************************************)
Inline(ctype, content) ==
    [header |-> "inline", ctype |-> ctype, content |-> content, cid |-> <<>>,
     name |-> ""]
InlineImage(ctype, cid, content) ==
    [header |-> "inline", ctype |-> ctype, content |-> content, cid |-> cid,
     name |-> ""]
Attachment(name, ctype, content) ==
    [header |-> "attachment", ctype |-> ctype, content |-> content, cid |-> <<>>,
     name |-> name]

MsgHello ==
    [id |-> "hello", wellFormed |-> TRUE, subject |-> "Hi", from |-> <<>>,
     to |-> <<"b@co">>, cc |-> <<>>, multipart |-> FALSE,
     parts |-> <<Inline("text/plain", <<"hello">>)>>, partErr |-> 0]
MsgAttachOnly ==
    [id |-> "attach", wellFormed |-> TRUE, subject |-> "", from |-> <<"x@co">>,
     to |-> <<>>, cc |-> <<>>, multipart |-> TRUE,
     parts |-> <<Attachment("a.pdf", "application/pdf", <<"pdf">>)>>, partErr |-> 0]
MsgTruncated ==
    [id |-> "trunc", wellFormed |-> TRUE, subject |-> "Hi", from |-> <<>>,
     to |-> <<"c@co">>, cc |-> <<>>, multipart |-> TRUE,
     parts |-> <<Inline("text/html", <<"<p>">>)>>, partErr |-> 2]
MsgBad ==
    [id |-> "bad", wellFormed |-> FALSE, subject |-> "", from |-> <<>>,
     to |-> <<>>, cc |-> <<>>, multipart |-> FALSE,
     parts |-> <<>>, partErr |-> 0]
Messages == {MsgHello, MsgAttachOnly, MsgTruncated, MsgBad}
ReadError == [id |-> "ioerr"]
Streams == Messages \cup {ReadError}

\* messages for the content transformer alone
MsgBoth ==
    [id |-> "both", wellFormed |-> TRUE, subject |-> "Hi", from |-> <<>>,
     to |-> <<"b@co">>, cc |-> <<"c@co">>, multipart |-> TRUE,
     parts |-> <<Inline("text/plain", <<"hello">>),
                 Inline("text/html", <<"<p>", "hello", "</p>">>)>>, partErr |-> 0]
MsgEmptyHtml ==
    [id |-> "emptyhtml", wellFormed |-> TRUE, subject |-> "Hi", from |-> <<>>,
     to |-> <<"b@co">>, cc |-> <<>>, multipart |-> TRUE,
     parts |-> <<Inline("text/plain", <<"hello">>), Inline("text/html", <<>>)>>,
     partErr |-> 0]
MsgImageAfter ==
    [id |-> "imgafter", wellFormed |-> TRUE, subject |-> "Hi", from |-> <<>>,
     to |-> <<"b@co">>, cc |-> <<>>, multipart |-> TRUE,
     parts |-> <<Inline("text/html", <<"<img src=", "cid:", "logo", ">">>),
                 InlineImage("image/png", <<"<", "logo", ">">>, <<"PNG">>)>>,
     partErr |-> 0]
MsgImageBefore ==
    [id |-> "imgbefore", wellFormed |-> TRUE, subject |-> "Hi", from |-> <<>>,
     to |-> <<"b@co">>, cc |-> <<>>, multipart |-> TRUE,
     parts |-> <<InlineImage("image/png", <<"<", "logo", ">">>, <<"PNG">>),
                 Inline("text/html", <<"<img src=", "cid:", "logo", ">">>)>>,
     partErr |-> 0]
MsgTwoAttachments ==
    [id |-> "attach2", wellFormed |-> TRUE, subject |-> "", from |-> <<>>,
     to |-> <<>>, cc |-> <<>>, multipart |-> TRUE,
     parts |-> <<Attachment("a.pdf", "application/pdf", <<"pdf">>),
                 Inline("text/plain", <<"hello">>),
                 Attachment("b.txt", "text/plain", <<"txt">>)>>, partErr |-> 0]
MsgTwoPlain ==
    [id |-> "twoplain", wellFormed |-> TRUE, subject |-> "Hi", from |-> <<>>,
     to |-> <<"b@co">>, cc |-> <<>>, multipart |-> TRUE,
     parts |-> <<Inline("text/plain", <<"hello">>), Inline("text/plain", <<"again">>)>>,
     partErr |-> 0]
MsgLateHtml ==
    [id |-> "latehtml", wellFormed |-> TRUE, subject |-> "Hi", from |-> <<>>,
     to |-> <<"b@co">>, cc |-> <<>>, multipart |-> TRUE,
     parts |-> <<Inline("text/plain", <<"hello">>), Inline("text/html", <<>>),
                 Inline("text/html", <<"<b>", "late", "</b>">>)>>, partErr |-> 0]
Mails ==
    {MsgHello, MsgAttachOnly, MsgTruncated, MsgBoth, MsgEmptyHtml, MsgImageAfter,
     MsgImageBefore, MsgTwoAttachments, MsgTwoPlain, MsgLateHtml}

VARIABLES
    transactions,   \* globalManager.transactions: key -> row
    timeouts,       \* globalManager.timeouts: key -> last-touched time
    lock,           \* holder of globalManager.mu, or "free"
    currentKey,     \* Session.currentKey, NoKey for ""
    activeEmail,    \* Session.activeEmail
    pc,             \* where each session's goroutine is
    local,          \* locals of the handler a session is inside
    sendLog,        \* sleeps and HTTP calls of the sendMail a session is inside
    ret,            \* handler that returned last on each session and its error
    now,            \* time.Now(), in seconds
    ticks,          \* number of clock advances so far
    nano,           \* number of UnixNano stamps handed out so far
    calls,          \* number of handler calls so far
    cycles,         \* per session: stamps of its completed MAIL, RCPT.., DATA
                    \* cycles that were neither reset nor reclaimed
    handoffs,       \* per session: stamps of the rows handed to the transformer
    seen,           \* per session: the addresses passed to addRecipient on the
                    \* row of its latest Mail, in call order
    reclaimed,      \* keys a cleanup sweep deleted and no handler inserted since
    crashed,        \* the runtime has stopped the process with a fatal error
    accepted        \* per session: stamps of the rows whose POST was answered 202

vars == <<transactions, timeouts, lock, currentKey, activeEmail, pc, local,
          sendLog, ret, now, ticks, nano, calls, cycles, handoffs, seen,
          reclaimed, crashed, accepted>>

store == <<transactions, timeouts>>

\* map helpers: Go maps as functions with a finite domain
Has(m, k) == k \in DOMAIN m
Put(m, k, v) == [x \in DOMAIN m \cup {k} |-> IF x = k THEN v ELSE m[x]]
\* variant: delete leaves the map as it is
DeleteKeeps(m, k) == m
Delete(m, k) == [x \in DOMAIN m \ {k} |-> m[x]]
EmptyMap == [x \in {} |-> 0]

NoLocal == [op |-> "none"]

\* a handler is called
Called == calls < MaxCalls /\ calls' = calls + 1
Returned(op, err) == [op |-> op, err |-> err]

(***************************************************************************)
(* EmailTransaction.  stamp is history: the number of the Mail call that   *)
(* created the row.                                                        *)
(***************************************************************************)
NewTransaction(from, stamp) ==
    [from |-> from, to |-> <<>>, dataBuffers |-> <<>>, stamp |-> stamp]

\* variant: duplicates are detected by exact comparison
addRecipientExact(e, rcpt) ==
    IF \E i \in 1..Len(e.to) : e.to[i] = rcpt
    THEN e
    ELSE [e EXCEPT !.to = Append(@, rcpt)]

addRecipient(e, rcpt) ==
    IF \E i \in 1..Len(e.to) : EqualFold(e.to[i], rcpt)
    THEN e
    ELSE [e EXCEPT !.to = Append(@, rcpt)]

\* variant: the newest segment is put in front
appendDataFront(e, content) == [e EXCEPT !.dataBuffers = <<content>> \o @]

appendData(e, content) == [e EXCEPT !.dataBuffers = Append(@, content)]

\* the state after construction, with the connections of ss accepted
InitOf(ss) ==
    /\ transactions = EmptyMap
    /\ timeouts = EmptyMap
    /\ lock = "free"
    /\ currentKey = [s \in ss |-> NoKey]
    /\ activeEmail = [s \in ss |-> ""]
    /\ pc = [s \in ss |-> "idle"]
    /\ local = [s \in ss |-> NoLocal]
    /\ sendLog = [s \in ss |-> <<>>]
    /\ ret = [s \in ss |-> Returned("NewSession", NoErr)]
    /\ now = 0
    /\ ticks = 0
    /\ nano = 0
    /\ calls = 0
    /\ cycles = [s \in ss |-> {}]
    /\ handoffs = [s \in ss |-> <<>>]
    /\ seen = [s \in ss |-> [stamp |-> 0, addrs |-> <<>>]]
    /\ reclaimed = {}
    /\ crashed = FALSE
    /\ accepted = [s \in ss |-> <<>>]

Init == InitOf(Sessions)

(***************************************************************************)
(* processEmailContent on the row.  A nil row makes the first field access *)
(* panic.                                                                  *)
(***************************************************************************)
RECURSIVE addRecipients(_, _)
addRecipients(e, addrs) ==
    IF addrs = <<>> THEN e
    ELSE addRecipients(addRecipient(e, Head(addrs)), Tail(addrs))

processEmailContent(msg, trans) ==
    LET t1 == IF Len(msg.from) > 0 THEN [trans EXCEPT !.from = msg.from[1]] ELSE trans
        t2 == addRecipients(t1, msg.to)
    IN appendData(t2, msg)

(***************************************************************************)
(* processEmail up to the call of sendMail: the checks, the parse of the   *)
(* concatenated segments, the recipient classification and the MIME walk.  *)
(* Go slices keep the difference between nil and empty.                    *)
(***************************************************************************)
NilSlice == [nil |-> TRUE, items |-> <<>>]
Slice(items) == [nil |-> FALSE, items |-> items]
GoAppend(sl, x) == Slice(Append(sl.items, x))

RECURSIVE GoAppendAll(_, _)
GoAppendAll(sl, xs) ==
    IF xs = <<>> THEN sl ELSE GoAppendAll(GoAppend(sl, Head(xs)), Tail(xs))

\* the message mail.CreateReader sees in the concatenation of the segments:
\* the header is the first segment's; the bytes of the later segments
\* continue the body of a message that is not multipart, and follow the
\* closing boundary of one that is
Concatenation(bufs) ==
    LET first == bufs[1]
        rest == [i \in 1..(Len(bufs) - 1) |-> bufs[i + 1].id]
    IN IF first.multipart \/ first.parts = <<>>
       THEN first
       ELSE [first EXCEPT !.parts[1].content = @ \o rest]

ImageTypes == {"image/png", "image/jpeg", "image/jpg", "image/bmp", "image/gif"}

\* base64.StdEncoding.EncodeToString
Base64(content) == [i \in 1..Len(content) |-> "b64(" \o content[i] \o ")"]

\* strings.Trim(contentID, "<>")
RECURSIVE TrimAngle(_)
TrimAngle(cid) ==
    IF cid = <<>> THEN cid
    ELSE IF Head(cid) \in {"<", ">"} THEN TrimAngle(Tail(cid))
    ELSE IF cid[Len(cid)] \in {"<", ">"} THEN TrimAngle(SubSeq(cid, 1, Len(cid) - 1))
    ELSE cid

\* strings.ReplaceAll, old not empty
RECURSIVE ReplaceAll(_, _, _)
ReplaceAll(text, old, new) ==
    IF Len(text) < Len(old) THEN text
    ELSE IF SubSeq(text, 1, Len(old)) = old
    THEN new \o ReplaceAll(SubSeq(text, Len(old) + 1, Len(text)), old, new)
    ELSE <<Head(text)>> \o ReplaceAll(Tail(text), old, new)

VisitPart(part, acc) ==
    IF part.header = "inline"
    THEN CASE part.ctype = "text/plain" ->
                IF acc.textBody = <<>> THEN [acc EXCEPT !.textBody = part.content] ELSE acc
           [] part.ctype = "text/html" ->
                IF acc.htmlBody = <<>> THEN [acc EXCEPT !.htmlBody = part.content] ELSE acc
           [] part.ctype \in ImageTypes ->
                IF acc.htmlBody # <<>>
                THEN [acc EXCEPT !.htmlBody =
                        ReplaceAll(@, <<"cid:">> \o TrimAngle(part.cid),
                                   <<"data:", part.ctype, ";base64,">> \o Base64(part.content))]
                ELSE acc
           [] OTHER -> acc
    ELSE [acc EXCEPT !.attachments =
            GoAppend(@, [odataType |-> "#microsoft.graph.fileAttachment",
                         name |-> part.name,
                         contentType |-> part.ctype,
                         contentBytes |-> Base64(part.content)])]

\* the loop over msg.NextPart(): failed is set when NextPart returns an error
RECURSIVE Walk(_, _, _, _)
Walk(parts, partErr, i, acc) ==
    IF partErr = i THEN [acc EXCEPT !.failed = TRUE]
    ELSE IF i > Len(parts) THEN acc
    ELSE Walk(parts, partErr, i + 1, VisitPart(parts[i], acc))

\* variant: the last address of a list is left out
buildRecipientsDropsLast(list) ==
    IF Len(list.items) <= 1 THEN Slice(<<>>)
    ELSE Slice([i \in 1..(Len(list.items) - 1) |->
                  [emailAddress |-> [address |-> list.items[i]]]])

buildRecipients(list) ==
    IF Len(list.items) = 0 THEN Slice(<<>>)
    ELSE Slice([i \in 1..Len(list.items) |->
                  [emailAddress |-> [address |-> list.items[i]]]])

\* variant: the To header addresses are listed as Bcc as well
buildGraphMessageBccFromTo(subject, bodyContentType, messageBody, toList, ccList, bccList, attachments) ==
    [message |-> [subject |-> subject,
                  body |-> [contentType |-> bodyContentType, content |-> messageBody],
                  toRecipients |-> buildRecipients(toList),
                  ccRecipients |-> buildRecipients(ccList),
                  bccRecipients |-> buildRecipients(toList),
                  attachments |-> attachments],
     saveToSentItems |-> FALSE]

buildGraphMessage(subject, bodyContentType, messageBody, toList, ccList, bccList, attachments) ==
    [message |-> [subject |-> subject,
                  body |-> [contentType |-> bodyContentType, content |-> messageBody],
                  toRecipients |-> buildRecipients(toList),
                  ccRecipients |-> buildRecipients(ccList),
                  bccRecipients |-> buildRecipients(bccList),
                  attachments |-> attachments],
     saveToSentItems |-> FALSE]

\* variant: the plain text is preferred
SelectBodyPlainFirst(textBody, htmlBody) ==
    IF textBody # <<>> THEN [content |-> textBody, contentType |-> "Text"]
    ELSE [content |-> htmlBody, contentType |-> "HTML"]

\* messageBody and bodyContentType
SelectBody(textBody, htmlBody) ==
    IF htmlBody # <<>> THEN [content |-> htmlBody, contentType |-> "HTML"]
    ELSE [content |-> textBody, contentType |-> "Text"]

\* variant: a message without body is sent as it is
NoBodyNever(messageBody) == FALSE

NoBody(messageBody) == messageBody = <<>>

\* variant: the attachments are passed on as collected
EnsureArrayKeepsNil(attachments) == attachments

\* if attachments == nil { attachments = []map[string]interface{}{} }
EnsureArray(attachments) == IF attachments.nil THEN Slice(<<>>) ELSE attachments

\* variant: a transaction without recipients passes the check
ValidWithoutRecipients(trans) ==
    ~(trans.from = "" \/ Len(trans.dataBuffers) = 0)

Valid(trans) ==
    ~(trans.from = "" \/ Len(trans.to) = 0 \/ Len(trans.dataBuffers) = 0)

\* variant: the header addresses are compared as they are spelled
bccOfExact(to, toList, ccList) ==
    LET known == {toList.items[i] : i \in 1..Len(toList.items)}
                 \cup {ccList.items[i] : i \in 1..Len(ccList.items)}
    IN GoAppendAll(NilSlice, SelectSeq(to, LAMBDA r : r \notin known))

\* the recipients of trans.to that are in neither header list
bccOf(to, toList, ccList) ==
    LET known == {ToLower(toList.items[i]) : i \in 1..Len(toList.items)}
                 \cup {ToLower(ccList.items[i]) : i \in 1..Len(ccList.items)}
    IN GoAppendAll(NilSlice, SelectSeq(to, LAMBDA r : ToLower(r) \notin known))

\* err is the error processEmail returns before it reaches sendMail, or
\* NoErr with the sender and the payload it passes to sendMail
Prepare(trans) ==
    IF ~Valid(trans)
    THEN [err |-> <<"invalid email transaction: missing required fields">>]
    ELSE
    LET msg == Concatenation(trans.dataBuffers)
    IN IF ~msg.wellFormed
       THEN [err |-> <<"failed to parse email:", "malformed header">>]
       ELSE
       LET subject == IF msg.subject # "" THEN msg.subject ELSE "No Subject"
           toList == GoAppendAll(NilSlice, msg.to)
           ccList == GoAppendAll(NilSlice, msg.cc)
           bccList == bccOf(trans.to, toList, ccList)
           walked == Walk(msg.parts, msg.partErr, 1,
                          [failed |-> FALSE, textBody |-> <<>>, htmlBody |-> <<>>,
                           attachments |-> NilSlice])
           messageBody == SelectBody(walked.textBody, walked.htmlBody).content
           bodyContentType == SelectBody(walked.textBody, walked.htmlBody).contentType
           attachments == EnsureArray(walked.attachments)
       IN IF walked.failed
          THEN [err |-> <<"failed to read MIME part:", "unexpected EOF">>]
          ELSE IF NoBody(messageBody)
          THEN [err |-> <<"email has no body content">>]
          ELSE [err |-> NoErr, sender |-> trans.from,
                payload |-> buildGraphMessage(subject, bodyContentType, messageBody,
                                              toList, ccList, bccList, attachments)]

(***************************************************************************)
(* The delivery client.  One attempt of doSendMail fetches a token and,    *)
(* when that succeeds, POSTs; the environment chooses both outcomes.       *)
(***************************************************************************)
TokenOutcomes == {"ok", "fail"}
Responses ==
    {[received |-> TRUE, status |-> 202, body |-> ""],
     [received |-> TRUE, status |-> 200, body |-> "OK"],
     [received |-> TRUE, status |-> 503, body |-> "MailboxInfoStale"],
     [received |-> TRUE, status |-> 403, body |-> "ErrorAccessDenied"],
     [received |-> FALSE, status |-> 0, body |-> ""]}

\* variant: a failed token fetch is taken for a failed POST
doSendMailIgnoresToken(token, resp) ==
    IF ~resp.received THEN <<"timeout">>
    ELSE IF resp.status # StatusAccepted THEN <<"graph API error:", resp.body>>
    ELSE NoErr

\* variant: every 2xx status is a success
doSendMailAny2xx(token, resp) ==
    IF token # "ok" THEN <<"failed to get access token:", "timeout">>
    ELSE IF ~resp.received THEN <<"timeout">>
    ELSE IF resp.status < 200 \/ resp.status > 299 THEN <<"graph API error:", resp.body>>
    ELSE NoErr

doSendMail(token, resp) ==
    IF token # "ok" THEN <<"failed to get access token:", "timeout">>
    ELSE IF ~resp.received THEN <<"timeout">>
    ELSE IF resp.status # StatusAccepted THEN <<"graph API error:", resp.body>>
    ELSE NoErr

\* the delay before the attempt numbered attempt (from 0), in seconds
Backoff(attempt) == Shl1(attempt)

\* variant: the loop of sendMail runs once more
MoreAttemptsFour(attempt) == attempt + 1 < maxRetries + 1

\* the loop condition of sendMail after the attempt numbered attempt
MoreAttempts(attempt) == attempt + 1 < maxRetries

\* variant: every failure is retried
RetryOnAnyError(err) == err # NoErr

\* whether sendMail goes on to another attempt after err
Retryable(err) == Contains(err, Marker)

(***************************************************************************)
(* Session.Mail                                                            *)
(***************************************************************************)
Mail(s, from) ==
    /\ ~crashed
    /\ pc[s] = "idle"
    /\ lock = "free"
    /\ Called
    /\ nano' = nano + 1
    /\ activeEmail' = [activeEmail EXCEPT ![s] = from]
    /\ LET key == Key(s, from, FormatInt(nano + 1))
       IN /\ currentKey' = [currentKey EXCEPT ![s] = key]
          /\ transactions' = Put(transactions, key, NewTransaction(from, nano + 1))
          /\ timeouts' = Put(timeouts, key, now)
          /\ reclaimed' = reclaimed \ {key}
    /\ ret' = [ret EXCEPT ![s] = Returned("Mail", NoErr)]
    /\ seen' = [seen EXCEPT ![s] = [stamp |-> nano + 1, addrs |-> <<>>]]
    /\ UNCHANGED <<lock, pc, local, sendLog, now, ticks, cycles, handoffs>>
    /\ UNCHANGED <<crashed, accepted>>

\* history: addrs were passed to addRecipient on row e
Witnessed(log, e, addrs) ==
    IF log.stamp = e.stamp THEN [log EXCEPT !.addrs = @ \o addrs] ELSE log

\* variant: without a current key, Rcpt opens a row of its own
RcptCreatesRow(s, to) ==
    /\ ~crashed
    /\ pc[s] = "idle"
    /\ Called
    /\ lock = "free"
    /\ LET key == IF currentKey[s] = NoKey THEN Key(s, "", "") ELSE currentKey[s]
           row == IF Has(transactions, key) THEN transactions[key]
                  ELSE NewTransaction("", 0)
       IN /\ transactions' = Put(transactions, key, addRecipient(row, to))
          /\ timeouts' = Put(timeouts, key, now)
    /\ ret' = [ret EXCEPT ![s] = Returned("Rcpt", NoErr)]
    /\ UNCHANGED <<lock, currentKey, activeEmail, pc, local, sendLog, now,
                   ticks, nano, cycles, handoffs, seen>>
    /\ UNCHANGED <<reclaimed, crashed, accepted>>

(***************************************************************************)
(* Session.Rcpt                                                            *)
(***************************************************************************)
Rcpt(s, to) ==
    /\ ~crashed
    /\ pc[s] = "idle"
    /\ Called
    /\ IF currentKey[s] = NoKey
       THEN /\ ret' = [ret EXCEPT ![s] = Returned("Rcpt", <<"no active transaction">>)]
            /\ UNCHANGED <<store, seen>>
       ELSE /\ lock = "free"
            /\ IF ~Has(transactions, currentKey[s])
               THEN /\ ret' = [ret EXCEPT ![s] = Returned("Rcpt", <<"transaction not found">>)]
                    /\ UNCHANGED <<store, seen>>
               ELSE /\ transactions' = [transactions EXCEPT ![currentKey[s]] = addRecipient(@, to)]
                    /\ timeouts' = Put(timeouts, currentKey[s], now)
                    /\ seen' = [seen EXCEPT ![s] = Witnessed(@, transactions[currentKey[s]], <<to>>)]
                    /\ ret' = [ret EXCEPT ![s] = Returned("Rcpt", NoErr)]
    /\ UNCHANGED <<lock, currentKey, activeEmail, pc, local, sendLog, now,
                   ticks, nano, cycles, handoffs>>
    /\ UNCHANGED <<reclaimed, crashed, accepted>>

\* variant: Reset keeps the transaction
ResetPreserves(s) ==
    /\ ~crashed
    /\ pc[s] = "idle"
    /\ Called
    /\ ret' = [ret EXCEPT ![s] = Returned("Reset", NoErr)]
    /\ UNCHANGED <<store, lock, currentKey, activeEmail, pc, local, sendLog, now,
                   ticks, nano, cycles, handoffs, seen>>
    /\ UNCHANGED <<reclaimed, crashed, accepted>>

(***************************************************************************)
(* Session.Reset                                                           *)
(***************************************************************************)
Reset(s) ==
    /\ ~crashed
    /\ pc[s] = "idle"
    /\ Called
    /\ IF currentKey[s] # NoKey
       THEN /\ lock = "free"
            /\ transactions' = Delete(transactions, currentKey[s])
            /\ timeouts' = Delete(timeouts, currentKey[s])
       ELSE UNCHANGED store
    /\ currentKey' = [currentKey EXCEPT ![s] = NoKey]
    /\ activeEmail' = [activeEmail EXCEPT ![s] = ""]
    /\ ret' = [ret EXCEPT ![s] = Returned("Reset", NoErr)]
    /\ cycles' = [cycles EXCEPT ![s] =
                     IF currentKey[s] # NoKey /\ Has(transactions, currentKey[s])
                     THEN @ \ {transactions[currentKey[s]].stamp} ELSE @]
    /\ UNCHANGED <<lock, pc, local, sendLog, now, ticks, nano, handoffs, seen>>
    /\ UNCHANGED <<reclaimed, crashed, accepted>>

(***************************************************************************)
(* Session.Data, up to the release of globalManager.mu: the reads of the   *)
(* stream and of its header, then the re-keying of the row.                *)
(***************************************************************************)
SubjectOf(msg) == IF msg.subject = "" THEN "No Subject" ELSE msg.subject

\* variant: a message that cannot be parsed discards the open transaction
DataDropsOnParseError(s, stream) ==
    /\ ~crashed
    /\ pc[s] = "idle"
    /\ Called
    /\ IF currentKey[s] = NoKey
       THEN /\ ret' = [ret EXCEPT ![s] = Returned("Data", <<"no active transaction">>)]
            /\ UNCHANGED <<store, currentKey, pc, local, reclaimed>>
       ELSE IF stream = ReadError
       THEN /\ ret' = [ret EXCEPT ![s] = Returned("Data", <<"read error">>)]
            /\ UNCHANGED <<store, currentKey, pc, local, reclaimed>>
       ELSE IF ~stream.wellFormed
       THEN /\ ret' = [ret EXCEPT ![s] = Returned("Data", <<"malformed header">>)]
            /\ transactions' = Delete(transactions, currentKey[s])
            /\ timeouts' = Delete(timeouts, currentKey[s])
            /\ currentKey' = [currentKey EXCEPT ![s] = NoKey]
            /\ UNCHANGED <<pc, local, reclaimed>>
       ELSE LET finalKey == Key(s, activeEmail[s], SubjectOf(stream))
                cur == currentKey[s]
            IN /\ lock = "free"
               /\ IF Has(transactions, cur)
                  THEN /\ transactions' =
                            Delete(Put(transactions, finalKey, transactions[cur]), cur)
                       /\ timeouts' = Delete(Put(timeouts, finalKey, now), cur)
                       /\ currentKey' = [currentKey EXCEPT ![s] = finalKey]
                       /\ reclaimed' = reclaimed \ {finalKey}
                  ELSE UNCHANGED <<store, currentKey, reclaimed>>
               /\ pc' = [pc EXCEPT ![s] = "data_process"]
               /\ local' = [local EXCEPT ![s] =
                              [op |-> "Data", msg |-> stream, finalKey |-> finalKey]]
               /\ UNCHANGED ret
    /\ UNCHANGED <<lock, activeEmail, sendLog, now, ticks, nano, cycles, handoffs,
                   seen>>
    /\ UNCHANGED <<crashed, accepted>>

Data(s, stream) ==
    /\ ~crashed
    /\ pc[s] = "idle"
    /\ Called
    /\ IF currentKey[s] = NoKey
       THEN /\ ret' = [ret EXCEPT ![s] = Returned("Data", <<"no active transaction">>)]
            /\ UNCHANGED <<store, currentKey, pc, local, reclaimed>>
       ELSE IF stream = ReadError
       THEN /\ ret' = [ret EXCEPT ![s] = Returned("Data", <<"read error">>)]
            /\ UNCHANGED <<store, currentKey, pc, local, reclaimed>>
       ELSE IF ~stream.wellFormed
       THEN /\ ret' = [ret EXCEPT ![s] = Returned("Data", <<"malformed header">>)]
            /\ UNCHANGED <<store, currentKey, pc, local, reclaimed>>
       ELSE LET finalKey == Key(s, activeEmail[s], SubjectOf(stream))
                cur == currentKey[s]
            IN /\ lock = "free"
               /\ IF Has(transactions, cur)
                  THEN /\ transactions' =
                            Delete(Put(transactions, finalKey, transactions[cur]), cur)
                       /\ timeouts' = Delete(Put(timeouts, finalKey, now), cur)
                       /\ currentKey' = [currentKey EXCEPT ![s] = finalKey]
                       /\ reclaimed' = reclaimed \ {finalKey}
                  ELSE UNCHANGED <<store, currentKey, reclaimed>>
               /\ pc' = [pc EXCEPT ![s] = "data_process"]
               /\ local' = [local EXCEPT ![s] =
                              [op |-> "Data", msg |-> stream, finalKey |-> finalKey]]
               /\ UNCHANGED ret
    /\ UNCHANGED <<lock, activeEmail, sendLog, now, ticks, nano, cycles, handoffs,
                   seen>>
    /\ UNCHANGED <<crashed, accepted>>

\* variant: Data sends the message as soon as it is stored
DataProcessSends(s) ==
    /\ ~crashed
    /\ pc[s] = "data_process"
    /\ LET fk == local[s].finalKey
       IN IF Has(transactions, fk)
          THEN LET row == processEmailContent(local[s].msg, transactions[fk])
                   prep == Prepare(row)
               IN /\ transactions' = [transactions EXCEPT ![fk] = row]
                  /\ seen' = [seen EXCEPT ![s] = Witnessed(@, transactions[fk], local[s].msg.to)]
                  /\ cycles' = [cycles EXCEPT ![s] =
                                  IF transactions[fk].to # <<>>
                                  THEN @ \cup {transactions[fk].stamp} ELSE @]
                  /\ IF prep.err = NoErr
                     THEN /\ lock = "free"
                          /\ lock' = s
                          /\ pc' = [pc EXCEPT ![s] = "send"]
                          /\ local' = [local EXCEPT ![s] =
                                         [op |-> "Data", sender |-> prep.sender,
                                          payload |-> prep.payload, attempt |-> 0,
                                          lastErr |-> NoErr, result |-> NoErr]]
                          /\ UNCHANGED ret
                     ELSE /\ ret' = [ret EXCEPT ![s] = Returned("Data", NoErr)]
                          /\ pc' = [pc EXCEPT ![s] = "idle"]
                          /\ local' = [local EXCEPT ![s] = NoLocal]
                          /\ UNCHANGED lock
          ELSE /\ ret' = [ret EXCEPT ![s] = Returned("Data", <<"panic: nil pointer dereference">>)]
               /\ pc' = [pc EXCEPT ![s] = "idle"]
               /\ local' = [local EXCEPT ![s] = NoLocal]
               /\ UNCHANGED <<transactions, cycles, seen, lock>>
    /\ UNCHANGED <<timeouts, currentKey, activeEmail, sendLog, now, ticks,
                   nano, calls, handoffs>>
    /\ UNCHANGED <<reclaimed, crashed, accepted>>

(***************************************************************************)
(* Session.Data after the unlock: the lookup of the row under finalKey,    *)
(* made without the lock, and processEmailContent.                         *)
(***************************************************************************)
DataProcess(s) ==
    /\ ~crashed
    /\ pc[s] = "data_process"
    /\ LET fk == local[s].finalKey
       IN IF Has(transactions, fk)
          THEN /\ transactions' =
                    [transactions EXCEPT ![fk] = processEmailContent(local[s].msg, @)]
               /\ seen' = [seen EXCEPT ![s] = Witnessed(@, transactions[fk], local[s].msg.to)]
               /\ ret' = [ret EXCEPT ![s] = Returned("Data", NoErr)]
               /\ cycles' = [cycles EXCEPT ![s] =
                               IF transactions[fk].to # <<>>
                               THEN @ \cup {transactions[fk].stamp} ELSE @]
          ELSE /\ ret' = [ret EXCEPT ![s] = Returned("Data", <<"panic: nil pointer dereference">>)]
               /\ UNCHANGED <<transactions, cycles, seen>>
    /\ pc' = [pc EXCEPT ![s] = "idle"]
    /\ local' = [local EXCEPT ![s] = NoLocal]
    /\ UNCHANGED <<timeouts, lock, currentKey, activeEmail, sendLog, now, ticks,
                   nano, calls, handoffs>>
    /\ UNCHANGED <<reclaimed, crashed, accepted>>

(***************************************************************************)
(* The lookup of the row in Data is made after the unlock.  When another   *)
(* goroutine writes the row map at that moment (a sweep deleting an        *)
(* expired key, another session's Mail inserting, another session's Logout *)
(* deleting after its send) the two accesses race; besides the outcomes of *)
(* DataProcess before or after the write, the runtime can stop the process *)
(* with "fatal error: concurrent map read and map write".                  *)
(***************************************************************************)
RacingWrite(s) ==
    \/ lock = "free" /\ \E k \in DOMAIN timeouts : now - timeouts[k] > CleanupThreshold
    \/ \E t \in DOMAIN pc \ {s} :
          \/ pc[t] = "idle" /\ lock = "free"
          \/ pc[t] = "sent" /\ local[t].result = NoErr

DataRace(s) ==
    /\ ~crashed
    /\ pc[s] = "data_process"
    /\ RacingWrite(s)
    /\ crashed' = TRUE
    /\ UNCHANGED <<transactions, timeouts, lock, currentKey, activeEmail, pc, local,
                   sendLog, ret, now, ticks, nano, calls, cycles, handoffs, seen,
                   reclaimed, accepted>>

(***************************************************************************)
(* Session.Logout up to the first attempt of sendMail.  globalManager.mu   *)
(* stays locked while processEmail sends.                                  *)
\* variant: the error return of Logout keeps globalManager.mu locked
LogoutLeaksOnError(s) ==
    /\ ~crashed
    /\ pc[s] = "idle"
    /\ Called
    /\ IF currentKey[s] = NoKey
       THEN /\ ret' = [ret EXCEPT ![s] = Returned("Logout", NoErr)]
            /\ UNCHANGED <<lock, pc, local, handoffs>>
       ELSE /\ lock = "free"
            /\ IF ~Has(transactions, currentKey[s])
               THEN /\ ret' = [ret EXCEPT ![s] = Returned("Logout", NoErr)]
                    /\ UNCHANGED <<lock, pc, local, handoffs>>
               ELSE LET trans == transactions[currentKey[s]]
                        prep == Prepare(trans)
                    IN IF prep.err # NoErr
                       THEN /\ ret' = [ret EXCEPT ![s] = Returned("Logout", prep.err)]
                            /\ handoffs' = [handoffs EXCEPT ![s] =
                                              IF Valid(trans) THEN Append(@, trans.stamp) ELSE @]
                            /\ lock' = s
                            /\ UNCHANGED <<pc, local>>
                       ELSE /\ handoffs' = [handoffs EXCEPT ![s] = Append(@, trans.stamp)]
                            /\ lock' = s
                            /\ pc' = [pc EXCEPT ![s] = "send"]
                            /\ local' = [local EXCEPT ![s] =
                                           [op |-> "Logout", sender |-> prep.sender,
                                            payload |-> prep.payload, attempt |-> 0,
                                            lastErr |-> NoErr, result |-> NoErr]]
                            /\ UNCHANGED ret
    /\ UNCHANGED <<store, currentKey, activeEmail, sendLog, now, ticks, nano,
                   cycles, seen>>
    /\ UNCHANGED <<reclaimed, crashed, accepted>>

(***************************************************************************)
Logout(s) ==
    /\ ~crashed
    /\ pc[s] = "idle"
    /\ Called
    /\ IF currentKey[s] = NoKey
       THEN /\ ret' = [ret EXCEPT ![s] = Returned("Logout", NoErr)]
            /\ UNCHANGED <<lock, pc, local, handoffs>>
       ELSE /\ lock = "free"
            /\ IF ~Has(transactions, currentKey[s])
               THEN /\ ret' = [ret EXCEPT ![s] = Returned("Logout", NoErr)]
                    /\ UNCHANGED <<lock, pc, local, handoffs>>
               ELSE LET trans == transactions[currentKey[s]]
                        prep == Prepare(trans)
                    IN IF prep.err # NoErr
                       THEN /\ ret' = [ret EXCEPT ![s] = Returned("Logout", prep.err)]
                            /\ handoffs' = [handoffs EXCEPT ![s] =
                                              IF Valid(trans) THEN Append(@, trans.stamp) ELSE @]
                            /\ UNCHANGED <<lock, pc, local>>
                       ELSE /\ handoffs' = [handoffs EXCEPT ![s] = Append(@, trans.stamp)]
                            /\ lock' = s
                            /\ pc' = [pc EXCEPT ![s] = "send"]
                            /\ local' = [local EXCEPT ![s] =
                                           [op |-> "Logout", sender |-> prep.sender,
                                            payload |-> prep.payload, attempt |-> 0,
                                            lastErr |-> NoErr, result |-> NoErr]]
                            /\ UNCHANGED ret
    /\ UNCHANGED <<store, currentKey, activeEmail, sendLog, now, ticks, nano,
                   cycles, seen>>
    /\ UNCHANGED <<reclaimed, crashed, accepted>>

(***************************************************************************)
(* sendMail: one iteration of the retry loop                               *)
(***************************************************************************)
SendAttempt(s, token, resp) ==
    /\ ~crashed
    /\ pc[s] = "send"
    /\ LET attempt == local[s].attempt
           slept == IF attempt > 0 THEN Backoff(attempt) ELSE 0
           err == doSendMail(token, resp)
           entry == [sleep |-> slept, token |-> token, posted |-> token = "ok",
                     status |-> IF token = "ok" /\ resp.received THEN resp.status ELSE 0,
                     err |-> err]
       IN /\ sendLog' = [sendLog EXCEPT ![s] = Append(@, entry)]
          /\ IF err = NoErr
             THEN /\ local' = [local EXCEPT ![s].result = NoErr]
                  /\ pc' = [pc EXCEPT ![s] = "sent"]
             ELSE IF ~Retryable(err)
             THEN /\ local' = [local EXCEPT ![s].lastErr = err, ![s].result = err]
                  /\ pc' = [pc EXCEPT ![s] = "sent"]
             ELSE IF MoreAttempts(attempt)
             THEN /\ local' = [local EXCEPT ![s].lastErr = err, ![s].attempt = attempt + 1]
                  /\ UNCHANGED pc
             ELSE /\ local' = [local EXCEPT ![s].lastErr = err,
                                 ![s].attempt = attempt + 1,
                                 ![s].result = <<"failed after", FormatInt(maxRetries),
                                                 "retries. Last error:">> \o err]
                  /\ pc' = [pc EXCEPT ![s] = "sent"]
    /\ UNCHANGED <<store, lock, currentKey, activeEmail, ret, now, ticks, nano,
                   calls, cycles, handoffs, seen>>
    /\ accepted' = [accepted EXCEPT ![s] =
                       IF doSendMail(token, resp) = NoErr
                       THEN Append(@, IF Has(transactions, currentKey[s])
                                      THEN transactions[currentKey[s]].stamp ELSE 0)
                       ELSE @]
    /\ UNCHANGED <<reclaimed, crashed>>

(***************************************************************************)
(* Session.Logout after sendMail has returned                              *)
\* variant: a failed delivery is logged and QUIT reports success
LogoutReturnSwallows(s) ==
    /\ ~crashed
    /\ pc[s] = "sent"
    /\ IF local[s].result # NoErr
       THEN /\ ret' = [ret EXCEPT ![s] = Returned("Logout", NoErr)]
            /\ UNCHANGED store
       ELSE /\ transactions' = Delete(transactions, currentKey[s])
            /\ timeouts' = Delete(timeouts, currentKey[s])
            /\ ret' = [ret EXCEPT ![s] = Returned("Logout", NoErr)]
    /\ lock' = "free"
    /\ pc' = [pc EXCEPT ![s] = "idle"]
    /\ local' = [local EXCEPT ![s] = NoLocal]
    /\ sendLog' = [sendLog EXCEPT ![s] = <<>>]
    /\ UNCHANGED <<currentKey, activeEmail, now, ticks, nano, calls, cycles,
                   handoffs, seen>>
    /\ UNCHANGED <<reclaimed, crashed, accepted>>

(***************************************************************************)
LogoutReturn(s) ==
    /\ ~crashed
    /\ pc[s] = "sent"
    /\ IF local[s].result # NoErr
       THEN /\ ret' = [ret EXCEPT ![s] =
                         Returned("Logout", <<"failed to send email:">> \o local[s].result)]
            /\ UNCHANGED store
       ELSE /\ transactions' = Delete(transactions, currentKey[s])
            /\ timeouts' = Delete(timeouts, currentKey[s])
            /\ ret' = [ret EXCEPT ![s] = Returned("Logout", NoErr)]
    /\ lock' = "free"
    /\ pc' = [pc EXCEPT ![s] = "idle"]
    /\ local' = [local EXCEPT ![s] = NoLocal]
    /\ sendLog' = [sendLog EXCEPT ![s] = <<>>]
    /\ UNCHANGED <<currentKey, activeEmail, now, ticks, nano, calls, cycles,
                   handoffs, seen>>
    /\ UNCHANGED <<reclaimed, crashed, accepted>>

(***************************************************************************)
(* TransactionManager.cleanup: one sweep of the ticker loop                *)
(***************************************************************************)
Expired(key) == now - timeouts[key] > CleanupThreshold

\* variant: the sweep deletes the row and keeps its timestamp
CleanupRowOnly ==
    /\ ~crashed
    /\ lock = "free"
    /\ LET dead == {k \in DOMAIN timeouts : Expired(k)}
       IN /\ transactions' = [k \in DOMAIN transactions \ dead |-> transactions[k]]
          /\ cycles' = [s \in DOMAIN cycles |->
                          cycles[s] \ {transactions[k].stamp :
                                          k \in {d \in dead \cap DOMAIN transactions : d[1] = s}}]
          /\ reclaimed' = reclaimed \cup dead
    /\ UNCHANGED <<timeouts, lock, currentKey, activeEmail, pc, local, sendLog, ret,
                   now, ticks, nano, calls, handoffs, seen>>
    /\ UNCHANGED <<crashed, accepted>>

Cleanup ==
    /\ ~crashed
    /\ lock = "free"
    /\ LET dead == {k \in DOMAIN timeouts : Expired(k)}
       IN /\ transactions' = [k \in DOMAIN transactions \ dead |-> transactions[k]]
          /\ timeouts' = [k \in DOMAIN timeouts \ dead |-> timeouts[k]]
          /\ cycles' = [s \in DOMAIN cycles |->
                          cycles[s] \ {transactions[k].stamp :
                                          k \in {d \in dead \cap DOMAIN transactions : d[1] = s}}]
          /\ reclaimed' = reclaimed \cup dead
    /\ UNCHANGED <<lock, currentKey, activeEmail, pc, local, sendLog, ret, now,
                   ticks, nano, calls, handoffs, seen>>
    /\ UNCHANGED <<crashed, accepted>>

\* the clock: between two steps either exactly the abandonment threshold
\* passes, or one second more
TickSteps == {CleanupThreshold, CleanupThreshold + 1}

Tick(d) ==
    /\ ~crashed
    /\ ticks < MaxTicks
    /\ ticks' = ticks + 1
    /\ now' = now + d
    /\ UNCHANGED <<transactions, timeouts, lock, currentKey, activeEmail, pc,
                   local, sendLog, ret, nano, calls, cycles, handoffs, seen>>
    /\ UNCHANGED <<reclaimed, crashed, accepted>>

Next ==
    \/ \E s \in Sessions, from \in Senders : Mail(s, from)
    \/ \E s \in Sessions, to \in Recipients : Rcpt(s, to)
    \/ \E s \in Sessions, stream \in Streams : Data(s, stream)
    \/ \E s \in Sessions : DataProcess(s)
    \/ \E s \in Sessions : DataRace(s)
    \/ \E s \in Sessions : Reset(s)
    \/ \E s \in Sessions : Logout(s)
    \/ \E s \in Sessions, token \in TokenOutcomes, resp \in Responses :
          SendAttempt(s, token, resp)
    \/ \E s \in Sessions : LogoutReturn(s)
    \/ Cleanup
    \/ \E d \in TickSteps : Tick(d)

Spec == Init /\ [][Next]_vars

(***************************************************************************)
(* Progress.  The ticker wakes cleanup every 30 seconds for ever and       *)
(* cleanup then waits in mu.Lock(), which sync.Mutex grants to a waiter    *)
(* once the holder unlocks: a sweep that has rows to delete happens if the *)
(* lock is free again and again.  A goroutine inside sendMail goes on: the *)
(* HTTP client gives up after 10 seconds and the sleeps are finite.        *)
(***************************************************************************)
Fairness ==
    /\ SF_vars(Cleanup)
    /\ \A s \in Sessions :
          /\ WF_vars(\E token \in TokenOutcomes, resp \in Responses :
                        SendAttempt(s, token, resp))
          /\ WF_vars(LogoutReturn(s))

\* the same program on fewer inputs: one recipient, one message, and a
\* delivery that succeeds or fails with the marker
NextFair ==
    \/ \E s \in Sessions, from \in Senders : Mail(s, from)
    \/ \E s \in Sessions : Rcpt(s, "b@co")
    \/ \E s \in Sessions : Data(s, MsgHello)
    \/ \E s \in Sessions : DataProcess(s)
    \/ \E s \in Sessions : DataRace(s)
    \/ \E s \in Sessions : Reset(s)
    \/ \E s \in Sessions : Logout(s)
    \/ \E s \in Sessions, resp \in {r \in Responses : r.status \in {202, 503}} :
          SendAttempt(s, "ok", resp)
    \/ \E s \in Sessions : LogoutReturn(s)
    \/ Cleanup
    \/ \E d \in TickSteps : Tick(d)

SpecFair == Init /\ [][NextFair]_vars /\ Fairness

(***************************************************************************)
(* Two connections at once, each with its own Session, on the inputs of    *)
(* NextFair.                                                               *)
(***************************************************************************)
InitTwo == InitOf(TwoSessions)

NextTwo ==
    \/ \E s \in TwoSessions, from \in Senders : Mail(s, from)
    \/ \E s \in TwoSessions : Rcpt(s, "b@co")
    \/ \E s \in TwoSessions : Data(s, MsgHello)
    \/ \E s \in TwoSessions : DataProcess(s)
    \/ \E s \in TwoSessions : DataRace(s)
    \/ \E s \in TwoSessions : Reset(s)
    \/ \E s \in TwoSessions : Logout(s)
    \/ \E s \in TwoSessions, resp \in {r \in Responses : r.status \in {202, 503}} :
          SendAttempt(s, "ok", resp)
    \/ \E s \in TwoSessions : LogoutReturn(s)
    \/ Cleanup
    \/ \E d \in TickSteps : Tick(d)

SpecTwo == InitTwo /\ [][NextTwo]_vars

(***************************************************************************)
(* The content transformer on its own inputs.  A run starts in the state   *)
(* a session is in after MAIL, the RCPT commands of rcpts and a DATA with  *)
(* msg, built with the operations those handlers apply, and goes through   *)
(* the finalization of Logout.                                             *)
(***************************************************************************)
RcptLists ==
    {<<>>} \cup {<<a>> : a \in Recipients}
           \cup {<<a, b>> : a \in Recipients, b \in Recipients}

InitTransform ==
    \E s \in Sessions, from \in Senders, rcpts \in RcptLists, msg \in Mails :
        LET opened == addRecipients(NewTransaction(from, 1), rcpts)
            row == processEmailContent(msg, opened)
            key == Key(s, from, SubjectOf(msg))
        IN /\ transactions = Put(EmptyMap, key, row)
           /\ timeouts = Put(EmptyMap, key, 0)
           /\ lock = "free"
           /\ currentKey = [t \in Sessions |-> key]
           /\ activeEmail = [t \in Sessions |-> from]
           /\ pc = [t \in Sessions |-> "idle"]
           /\ local = [t \in Sessions |-> NoLocal]
           /\ sendLog = [t \in Sessions |-> <<>>]
           /\ ret = [t \in Sessions |-> Returned("Data", NoErr)]
           /\ now = 0
           /\ ticks = 0
           /\ nano = 1
           /\ calls = Len(rcpts) + 2
           /\ cycles = [t \in Sessions |-> IF opened.to # <<>> THEN {1} ELSE {}]
           /\ handoffs = [t \in Sessions |-> <<>>]
           /\ seen = [t \in Sessions |-> [stamp |-> 1, addrs |-> rcpts \o msg.to]]
           /\ reclaimed = {}
           /\ crashed = FALSE
           /\ accepted = [t \in Sessions |-> <<>>]

NextTransform ==
    \/ \E s \in Sessions : Logout(s)
    \/ \E s \in Sessions, token \in TokenOutcomes, resp \in Responses :
          SendAttempt(s, token, resp)
    \/ \E s \in Sessions : LogoutReturn(s)

SpecTransform == InitTransform /\ [][NextTransform]_vars

(***************************************************************************)
(* A session later in its life: one message has been stored by Mail and    *)
(* Data and its row is in the store under the key with the Subject.  From  *)
(* here on the handlers run as in Spec; calls counts the handler calls     *)
(* made from this state on.                                                *)
(***************************************************************************)
Stored == {m \in Messages : m.wellFormed}

InitLater ==
    \E s \in Sessions, from \in Senders, msg \in Stored :
        LET row == processEmailContent(msg, NewTransaction(from, 1))
            key == Key(s, from, SubjectOf(msg))
        IN /\ transactions = Put(EmptyMap, key, row)
           /\ timeouts = Put(EmptyMap, key, 0)
           /\ lock = "free"
           /\ currentKey = [t \in Sessions |-> key]
           /\ activeEmail = [t \in Sessions |-> from]
           /\ pc = [t \in Sessions |-> "idle"]
           /\ local = [t \in Sessions |-> NoLocal]
           /\ sendLog = [t \in Sessions |-> <<>>]
           /\ ret = [t \in Sessions |-> Returned("Data", NoErr)]
           /\ now = 0
           /\ ticks = 0
           /\ nano = 1
           /\ calls = 0
           /\ cycles = [t \in Sessions |-> {}]
           /\ handoffs = [t \in Sessions |-> <<>>]
           /\ seen = [t \in Sessions |-> [stamp |-> 1, addrs |-> msg.to]]
           /\ reclaimed = {}
           /\ crashed = FALSE
           /\ accepted = [t \in Sessions |-> <<>>]

\* the handlers that open, fill and store transactions, and the sweep; the
\* session does not quit
NextLater ==
    \/ \E s \in Sessions, from \in Senders : Mail(s, from)
    \/ \E s \in Sessions : Rcpt(s, "b@co")
    \/ \E s \in Sessions, stream \in Streams : Data(s, stream)
    \/ \E s \in Sessions : DataProcess(s)
    \/ \E s \in Sessions : DataRace(s)
    \/ \E s \in Sessions : Reset(s)
    \/ Cleanup
    \/ \E d \in TickSteps : Tick(d)

SpecLater == InitLater /\ [][NextLater]_vars

(***************************************************************************)
(* Properties                                                              *)
(***************************************************************************)
RowsOf(s, txs) == {k \in DOMAIN txs : k[1] = s}
InStore(k) == Has(transactions, k) \/ Has(timeouts, k)
Failed(r, op) == r.op = op /\ r.err # NoErr

\* C1: after Logout returns on a session with an active transaction, whatever
\* processEmail returned, the session's current key is in neither store map.
C1_LogoutRemovesRow ==
    \A s \in Sessions :
        (pc[s] = "idle" /\ ret[s].op = "Logout" /\ currentKey[s] # NoKey)
            => ~InStore(currentKey[s])

\* C2: when Logout has returned, every completed MAIL, RCPT.., DATA cycle of
\* the session that was neither reset nor reclaimed has been handed to the
\* transformer exactly once.
C2_EachCycleForwardedOnce ==
    \A s \in Sessions :
        (pc[s] = "idle" /\ ret[s].op = "Logout")
            => \A st \in cycles[s] :
                 Cardinality({i \in 1..Len(handoffs[s]) : handoffs[s][i] = st}) = 1

\* C3: a row is handed to processEmail, sendMail is entered and a token fetch
\* or POST is made only in steps of Logout; no step of Mail, Rcpt, Data or
\* Reset does any of them.
C3_DeliveryOnlyAtQuit ==
    [][\A s \in Sessions :
          (\/ handoffs'[s] # handoffs[s]
           \/ (pc'[s] = "send" /\ pc[s] # "send")
           \/ (sendLog'[s] # sendLog[s] /\ sendLog'[s] # <<>>))
          => (\/ Logout(s)
              \/ \E token \in TokenOutcomes, resp \in Responses :
                    SendAttempt(s, token, resp))]_vars

C3_Witness ==
    \E s \in Sessions :
        /\ pc[s] = "sent"
        /\ sendLog[s] # <<>>
        /\ cycles[s] # {}

\* C4: Mail succeeds and afterwards the store holds exactly one row of the
\* session, the new one with sender from, no recipient and no data segment.
C4_MailLeavesOneRow ==
    [][\A s \in Sessions, from \in Senders :
          Mail(s, from) =>
            /\ ret'[s].err = NoErr
            /\ RowsOf(s, transactions') = {currentKey'[s]}
            /\ transactions'[currentKey'[s]].from = from
            /\ transactions'[currentKey'[s]].to = <<>>
            /\ transactions'[currentKey'[s]].dataBuffers = <<>>]_vars

\* C5: Rcpt on a session without a current key (no Mail yet, or after Reset)
\* returns an error and leaves both store maps unchanged.
C5_RcptWithoutMailFails ==
    [][\A s \in Sessions, to \in Recipients :
          (Rcpt(s, to) /\ currentKey[s] = NoKey)
            => (Failed(ret'[s], "Rcpt") /\ store' = store)]_vars

C5_Witness ==
    \E s \in Sessions :
        /\ Failed(ret[s], "Rcpt")
        /\ currentKey[s] = NoKey
        /\ nano > 0
        /\ RowsOf(s, transactions) = {}

\* C6: Data on a session without an active transaction, or whose transaction
\* has no recipient, returns an error, appends no segment and re-keys nothing.
C6_DataNeedsRecipient ==
    [][\A s \in Sessions, stream \in Streams :
          (/\ Data(s, stream)
           /\ \/ currentKey[s] = NoKey
              \/ ~Has(transactions, currentKey[s])
              \/ transactions[currentKey[s]].to = <<>>)
            => (/\ pc'[s] = "idle"
                /\ Failed(ret'[s], "Data")
                /\ store' = store
                /\ currentKey'[s] = currentKey[s])]_vars

\* C7: no row holds two recipients that are equal ignoring case, and the row of
\* a session's latest Mail holds the addresses passed to addRecipient (by Rcpt
\* and by Data) without the later case-insensitive repeats, in first-seen
\* order and spelling.
RECURSIVE Pick(_, _, _)
Pick(a, keep, i) ==
    IF i > Len(a) THEN <<>>
    ELSE (IF i \in keep THEN <<a[i]>> ELSE <<>>) \o Pick(a, keep, i + 1)

FirstSeen(a) ==
    Pick(a, {i \in 1..Len(a) : \A j \in 1..(i - 1) : ToLower(a[j]) # ToLower(a[i])}, 1)

C7_RecipientsDistinctFirstSeen ==
    \A k \in DOMAIN transactions :
        LET to == transactions[k].to
        IN /\ \A i, j \in 1..Len(to) : ToLower(to[i]) = ToLower(to[j]) => i = j
           /\ \A s \in Sessions :
                seen[s].stamp = transactions[k].stamp => to = FirstSeen(seen[s].addrs)

C7_Witness ==
    \E k \in DOMAIN transactions, s \in Sessions :
        /\ seen[s].stamp = transactions[k].stamp
        /\ Len(transactions[k].to) = 2
        /\ Len(seen[s].addrs) = 3

\* C8: Reset returns no error, removes the session's current key from both
\* store maps and clears the current key; while the current key is clear,
\* Rcpt and Data fail, Logout hands nothing over and sends nothing, and only
\* Mail sets a current key again.
C8_ResetReturnsToIdle ==
    [][\A s \in Sessions :
          /\ Reset(s) =>
               /\ ret'[s] = Returned("Reset", NoErr)
               /\ currentKey[s] # NoKey =>
                    (~Has(transactions', currentKey[s]) /\ ~Has(timeouts', currentKey[s]))
               /\ currentKey'[s] = NoKey
               /\ pc'[s] = "idle"
          /\ currentKey[s] = NoKey =>
               /\ \A to \in Recipients : Rcpt(s, to) => Failed(ret'[s], "Rcpt")
               /\ \A stream \in Streams :
                    Data(s, stream) => (Failed(ret'[s], "Data") /\ pc'[s] = "idle")
               /\ Logout(s) =>
                    (/\ ret'[s] = Returned("Logout", NoErr)
                     /\ pc'[s] = "idle"
                     /\ handoffs' = handoffs
                     /\ sendLog' = sendLog
                     /\ store' = store)
               /\ currentKey'[s] # NoKey => \E from \in Senders : Mail(s, from)]_vars

C8_Witness ==
    \E s \in Sessions :
        /\ ret[s] = Returned("Reset", NoErr)
        /\ nano > 0
        /\ ticks = 0
        /\ handoffs[s] = <<>>
        /\ RowsOf(s, transactions) = {}
        /\ currentKey[s] = NoKey

\* C9: inside sendMail every attempt but the last failed with an error that
\* contains the marker, and an attempt that failed with an error without the
\* marker is the last: sendMail has returned that error.
C9_RetryOnlyOnMarker ==
    \A s \in Sessions :
        LET log == sendLog[s]
        IN /\ \A i \in 1..(Len(log) - 1) : Contains(log[i].err, Marker)
           /\ (log # <<>> /\ log[Len(log)].err # NoErr
                 /\ ~Contains(log[Len(log)].err, Marker))
                => (pc[s] = "sent" /\ local[s].result = log[Len(log)].err)

C9_Witness ==
    \E s \in Sessions :
        /\ pc[s] = "sent"
        /\ Len(sendLog[s]) = 2
        /\ Contains(sendLog[s][1].err, Marker)
        /\ sendLog[s][2].err # NoErr
        /\ ~Contains(sendLog[s][2].err, Marker)

\* C10: when two attempts fail with the marker and the third succeeds,
\* sendMail returns success having slept 1 second before the second attempt
\* and 2 seconds before the third.
C10_BackoffOneThenTwo ==
    \A s \in Sessions :
        LET log == sendLog[s]
        IN (/\ pc[s] = "sent"
            /\ Len(log) = 3
            /\ Contains(log[1].err, Marker)
            /\ Contains(log[2].err, Marker)
            /\ log[3].err = NoErr)
           => (/\ local[s].result = NoErr
               /\ log[1].sleep = 0
               /\ log[2].sleep = 1
               /\ log[3].sleep = 2)

\* C11: sendMail makes at most 3 attempts for one message; when 3 attempts
\* have failed with the marker it has returned, without a 4th attempt, an error
\* that names the count 3 and the error of the last attempt.
C11_AtMostThreeAttempts ==
    \A s \in Sessions :
        LET log == sendLog[s]
        IN /\ Len(log) <= 3
           /\ (Len(log) = 3 /\ \A i \in 1..3 : Contains(log[i].err, Marker))
                => (/\ pc[s] = "sent"
                    /\ Contains(local[s].result, "3")
                    /\ \E n \in 1..Len(local[s].result) :
                          SubSeq(local[s].result, n + 1, Len(local[s].result)) = log[3].err)

C11_Witness ==
    \E s \in Sessions :
        /\ pc[s] = "sent"
        /\ Len(sendLog[s]) = 3
        /\ \A i \in 1..3 : Contains(sendLog[s][i].err, Marker)

\* the keys a run can put in the store
Keys ==
    {Key(s, from, suffix) :
        s \in Sessions, from \in Senders,
        suffix \in {FormatInt(n) : n \in 1..MaxCalls} \cup {SubjectOf(m) : m \in Messages}}

\* C12: with the sweep running fairly, a key whose timestamp is older than the
\* abandonment threshold is eventually in neither the row map nor the
\* timestamp map, unless a session touched it again and refreshed the
\* timestamp, or the process died; no handler call is needed for that.
C12_AbandonedRowReclaimed ==
    \A k \in Keys :
        (Has(timeouts, k) /\ Expired(k))
            ~> (~InStore(k) \/ (Has(timeouts, k) /\ ~Expired(k)) \/ crashed)

C12_Witness ==
    \E s \in Sessions :
        /\ ret[s].op = "Mail"
        /\ calls = 1
        /\ ~crashed
        /\ currentKey[s] \in reclaimed
        /\ ~InStore(currentKey[s])

Panicked(r) == \E i \in 1..Len(r.err) : r.err[i] = "panic: nil pointer dereference"

\* C13: once a sweep has removed a session's current row, nothing of it is in
\* the store, and the handler the session calls next returns success or an
\* error value; it does not act on the missing row.
C13_ReuseAfterReclaimIsFresh ==
    \A s \in Sessions :
        (currentKey[s] # NoKey /\ currentKey[s] \in reclaimed)
            => (~InStore(currentKey[s]) /\ ~Panicked(ret[s]))

\* a step of one of the handlers of session s
HandlerStep(s) ==
    \/ \E from \in Senders : Mail(s, from)
    \/ \E to \in Recipients : Rcpt(s, to)
    \/ \E stream \in Streams : Data(s, stream)
    \/ DataProcess(s)
    \/ DataRace(s)
    \/ Reset(s)
    \/ Logout(s)
    \/ \E token \in TokenOutcomes, resp \in Responses : SendAttempt(s, token, resp)
    \/ LogoutReturn(s)

\* the part of a store map under the keys of the sessions other than s
OfOthers(s, m) == [k \in {x \in DOMAIN m : x[1] # s} |-> m[k]]

\* the current row and timestamp of session t, if it has them
Current(t, m) == [k \in {currentKey[t]} \cap DOMAIN m |-> m[k]]

\* C14: with two sessions interleaved in any way, a step of a handler of one
\* session leaves every row and every timestamp under a key of the other
\* session as it was, and in particular the other session's current row.
C14_SessionsIsolated ==
    [][\A s \in TwoSessions :
          HandlerStep(s) =>
            /\ OfOthers(s, transactions') = OfOthers(s, transactions)
            /\ OfOthers(s, timeouts') = OfOthers(s, timeouts)
            /\ \A t \in TwoSessions \ {s} :
                  /\ currentKey'[t] = currentKey[t]
                  /\ Current(t, transactions') = Current(t, transactions)
                  /\ Current(t, timeouts') = Current(t, timeouts)]_vars

C14_Witness ==
    \E s, t \in TwoSessions :
        /\ s # t
        /\ pc[s] = "data_process"
        /\ ret[t].op = "Rcpt"
        /\ RowsOf(s, transactions) # {}
        /\ RowsOf(t, transactions) # {}
        /\ ~crashed

\* C15: while a session is inside sendMail (token fetch, POST, backoff sleep)
\* the store lock is free, so that the handlers of the other session and the
\* sweep can take it.
C15_LockFreeDuringDelivery ==
    \A s \in TwoSessions : pc[s] = "send" => lock = "free"

\* the row a session in finalization is sending, the message parsed from its
\* segments, and the addresses of a recipient array of the payload
Sending(s) == pc[s] = "send"
RowOf(s) == transactions[currentKey[s]]
ParsedOf(s) == Concatenation(RowOf(s).dataBuffers)
Addresses(arr) == [i \in 1..Len(arr.items) |-> arr.items[i].emailAddress.address]
Elems(q) == {q[i] : i \in 1..Len(q)}

\* C16: in the message handed to sendMail the Bcc list holds, in order, exactly
\* the recipients of the row that equal, ignoring case, no address of the To
\* and Cc headers; with recipients b@co, c@co and a To header of b@co alone
\* the Bcc list is c@co.
C16_BccInference ==
    \A s \in Sessions :
        Sending(s) =>
            LET to == RowOf(s).to
                hdr == Elems(ParsedOf(s).to) \cup Elems(ParsedOf(s).cc)
                bcc == Addresses(local[s].payload.message.bccRecipients)
            IN /\ \A r \in Elems(to) :
                     r \in Elems(bcc) <=> ~\E h \in hdr : EqualFold(r, h)
               /\ bcc = SelectSeq(to, LAMBDA r : r \in Elems(bcc))
               /\ (to = <<"b@co", "c@co">> /\ hdr = {"b@co"}) => bcc = <<"c@co">>

C16_Witness ==
    \E s \in Sessions :
        /\ Sending(s)
        /\ RowOf(s).to = <<"b@co", "c@co">>
        /\ ParsedOf(s).to = <<"b@co">>
        /\ ParsedOf(s).cc = <<>>
        /\ Addresses(local[s].payload.message.bccRecipients) = <<"c@co">>

\* the inline parts of a content type, in document order, and the first of
\* them that is not empty
InlineOf(msg, ctype) ==
    SelectSeq(msg.parts, LAMBDA q : q.header = "inline" /\ q.ctype = ctype)
FirstContent(qs) ==
    LET full == SelectSeq(qs, LAMBDA q : q.content # <<>>)
    IN IF full = <<>> THEN <<>> ELSE full[1].content
HasImage(msg) ==
    \E i \in 1..Len(msg.parts) :
        msg.parts[i].header = "inline" /\ msg.parts[i].ctype \in ImageTypes

NoBodyError == <<"email has no body content">>

\* C18: Logout on a row whose message has no inline text/plain and no inline
\* text/html part returns an error without entering sendMail, so without a
\* token fetch or a POST; when the row is otherwise complete and its
\* message is read to the end, the error is that the email has no body.
C18_NoBodyNoSend ==
    [][\A s \in Sessions :
          (/\ Logout(s)
           /\ currentKey[s] # NoKey
           /\ Has(transactions, currentKey[s])
           /\ RowOf(s).dataBuffers # <<>>
           /\ InlineOf(ParsedOf(s), "text/plain") = <<>>
           /\ InlineOf(ParsedOf(s), "text/html") = <<>>)
            => (/\ Failed(ret'[s], "Logout")
                /\ pc'[s] = "idle"
                /\ sendLog' = sendLog
                /\ (Valid(RowOf(s)) /\ ParsedOf(s).wellFormed /\ ParsedOf(s).partErr = 0)
                      => ret'[s].err = NoBodyError)]_vars

C18_Witness ==
    \E s \in Sessions :
        /\ ret[s] = Returned("Logout", NoBodyError)
        /\ pc[s] = "idle"
        /\ sendLog[s] = <<>>
        /\ Has(transactions, currentKey[s])
        /\ ParsedOf(s).id = "attach"

\* the body with the cid reference of every inline image of parts replaced
RECURSIVE Substituted(_, _)
Substituted(body, parts) ==
    IF parts = <<>> THEN body
    ELSE LET q == Head(parts)
             next == IF q.header = "inline" /\ q.ctype \in ImageTypes
                     THEN ReplaceAll(body, <<"cid:">> \o TrimAngle(q.cid),
                                     <<"data:", q.ctype, ";base64,">> \o Base64(q.content))
                     ELSE body
         IN Substituted(next, Tail(parts))

\* C19: in the outgoing HTML body every cid reference to an inline image of
\* the message is replaced by the data URI of that image, whether the image
\* part comes before or after the HTML part.
C19_CidOrderIndependent ==
    \A s \in Sessions :
        LET html == FirstContent(InlineOf(ParsedOf(s), "text/html"))
        IN (Sending(s) /\ html # <<>>)
             => local[s].payload.message.body.content =
                  Substituted(html, ParsedOf(s).parts)

\* C20: in every message handed to sendMail the attachments field is an
\* array, never nil, with one element per attachment part of the message in
\* document order (none when there is no such part), and toRecipients,
\* ccRecipients and bccRecipients are arrays, never nil.
C20_ArraysNeverNil ==
    \A s \in Sessions :
        Sending(s) =>
            LET m == local[s].payload.message
                files == SelectSeq(ParsedOf(s).parts, LAMBDA q : q.header = "attachment")
            IN /\ ~m.attachments.nil
               /\ Len(m.attachments.items) = Len(files)
               /\ \A i \in 1..Len(files) :
                     /\ m.attachments.items[i].name = files[i].name
                     /\ m.attachments.items[i].contentType = files[i].ctype
                     /\ m.attachments.items[i].contentBytes = Base64(files[i].content)
               /\ ~m.toRecipients.nil
               /\ ~m.ccRecipients.nil
               /\ ~m.bccRecipients.nil
               /\ Addresses(m.toRecipients) = ParsedOf(s).to
               /\ Addresses(m.ccRecipients) = ParsedOf(s).cc

C20_Witness ==
    \E s \in Sessions :
        /\ Sending(s)
        /\ ParsedOf(s).id = "hello"
        /\ local[s].payload.message.attachments = Slice(<<>>)
        /\ local[s].payload.message.ccRecipients = Slice(<<>>)
        /\ local[s].payload.message.bccRecipients = Slice(<<>>)

\* the run MAIL FROM a@co; RCPT TO b@co; RCPT TO B@CO; DATA (To: b@co,
\* Subject: Hi, body hello); QUIT, with no time passing, at or after the call
\* of Logout
ScenarioQuit(s) ==
    /\ calls = 5
    /\ nano = 1
    /\ now = 0
    /\ seen[s].addrs = <<"b@co", "B@CO", "b@co">>
    /\ cycles[s] = {1}
    /\ (pc[s] \in {"send", "sent"} \/ ret[s].op = "Logout")

ScenarioPayload ==
    [message |-> [subject |-> "Hi",
                  body |-> [contentType |-> "Text", content |-> <<"hello">>],
                  toRecipients |-> Slice(<<[emailAddress |-> [address |-> "b@co"]]>>),
                  ccRecipients |-> Slice(<<>>),
                  bccRecipients |-> Slice(<<>>),
                  attachments |-> Slice(<<>>)],
     saveToSentItems |-> FALSE]

\* C21: that run hands exactly one message to sendMail: sender a@co, one To
\* recipient b@co, subject Hi, body hello, Bcc empty, attachments empty; the
\* row holds the single recipient b@co, and Logout returns only after
\* sendMail has returned.
C21_EndToEndScenario ==
    \A s \in Sessions :
        ScenarioQuit(s) =>
            /\ handoffs[s] = <<1>>
            /\ pc[s] \in {"send", "sent"} =>
                  /\ local[s].sender = "a@co"
                  /\ local[s].payload = ScenarioPayload
                  /\ RowOf(s).to = <<"b@co">>
            /\ pc[s] = "idle" =>
                  \/ ret[s].err = NoErr /\ ~InStore(currentKey[s])
                  \/ Contains(ret[s].err, "failed to send email:")

C21_Witness ==
    \E s \in Sessions :
        /\ ScenarioQuit(s)
        /\ pc[s] = "sent"
        /\ local[s].result = NoErr
        /\ Len(sendLog[s]) = 1

\* C22: a Data that finds the row of the current key and re-keys it leaves
\* that row in the store under the session's new current key, with the
\* timestamp set to the current time (so that the next sweep keeps it), and
\* under no other key of the session that it had before; this includes a
\* second Data of the transaction whose key with the subject is the current
\* key already.
C22_RekeyKeepsRow ==
    [][\A s \in Sessions, stream \in Messages :
          (/\ Data(s, stream)
           /\ stream.wellFormed
           /\ currentKey[s] # NoKey
           /\ Has(transactions, currentKey[s]))
            => (/\ Has(transactions', currentKey'[s])
                /\ transactions'[currentKey'[s]] = transactions[currentKey[s]]
                /\ Has(timeouts', currentKey'[s])
                /\ timeouts'[currentKey'[s]] = now
                /\ ~(now - timeouts'[currentKey'[s]] > CleanupThreshold)
                /\ currentKey[s] # currentKey'[s] =>
                      (~Has(transactions', currentKey[s]) /\ ~Has(timeouts', currentKey[s])))]_vars

\* C23: the step of Data that looks the row up in the row map and updates its
\* sender, recipients and segments is taken by a session that holds the
\* store lock.
C23_RowAccessUnderLock ==
    [][\A s \in TwoSessions : DataProcess(s) => lock = s]_vars

\* C24: no step stores a transaction under a key that holds the row of
\* another transaction: a key that is in the row map before and after a step
\* still holds the transaction opened by the same Mail call.
C24_KeysNeverOverwritten ==
    [][\A k \in DOMAIN transactions \cap DOMAIN transactions' :
          transactions'[k].stamp = transactions[k].stamp]_vars

\* C25: the row update of Data appends the message as one segment and leaves
\* the row's sender and recipient list as Mail and Rcpt recorded them,
\* whatever the From and To headers of the message say.
C25_DataOnlyAppends ==
    [][\A s \in Sessions :
          (DataProcess(s) /\ Has(transactions, local[s].finalKey))
            => LET old == transactions[local[s].finalKey]
                   new == transactions'[local[s].finalKey]
               IN /\ new.from = old.from
                  /\ new.to = old.to
                  /\ new.dataBuffers = Append(old.dataBuffers, local[s].msg)]_vars

IsPrefix(p, q) == Len(p) <= Len(q) /\ \A i \in 1..Len(p) : p[i] = q[i]
SegmentIds(bufs) == [i \in 1..Len(bufs) |-> bufs[i].id]
Tail2(q) == [i \in 1..(Len(q) - 1) |-> q[i + 1]]

\* C26: the segments of a row keep their arrival order.  Every step leaves
\* the segments a transaction already has in place and adds at most one at
\* the end; the row update of a successful Data adds exactly the message of
\* that call as the last segment; and the body handed to delivery by Logout
\* is the first segment's text followed by the later segments in row order.
C26_SegmentsInArrivalOrder ==
    /\ [][/\ \A k \in DOMAIN transactions, k2 \in DOMAIN transactions' :
               transactions[k].stamp = transactions'[k2].stamp
                 => /\ IsPrefix(transactions[k].dataBuffers, transactions'[k2].dataBuffers)
                    /\ Len(transactions'[k2].dataBuffers) <= Len(transactions[k].dataBuffers) + 1
           /\ \A s \in Sessions :
                 (DataProcess(s) /\ Has(transactions, local[s].finalKey))
                   => transactions'[local[s].finalKey].dataBuffers
                        = transactions[local[s].finalKey].dataBuffers \o <<local[s].msg>>]_vars
    /\ [](\A s \in Sessions :
            (Sending(s) /\ local[s].op = "Logout" /\ ~RowOf(s).dataBuffers[1].multipart)
              => local[s].payload.message.body.content
                   = RowOf(s).dataBuffers[1].parts[1].content
                       \o Tail2(SegmentIds(RowOf(s).dataBuffers)))

\* two Data calls were stored in call order and handed to delivery in that order
C26_Witness ==
    \E s \in Sessions :
       /\ Sending(s) /\ local[s].op = "Logout"
       /\ SegmentIds(RowOf(s).dataBuffers) = <<"hello", "attach">>
       /\ local[s].payload.message.body.content = <<"hello", "attach">>

\* C27: a Data call that fails because the session has no current key,
\* because the stream cannot be read, or because the headers cannot be
\* parsed returns an error and leaves both maps and the session's current
\* key as they were.
C27_FailedDataChangesNothing ==
    [][\A s \in Sessions, stream \in Streams :
          (Data(s, stream) /\ (currentKey[s] = NoKey \/ stream = ReadError \/ ~stream.wellFormed))
            => /\ Failed(ret'[s], "Data")
               /\ UNCHANGED <<transactions, timeouts, currentKey>>]_vars

\* a transaction with a recipient is still open after a Data whose headers
\* could not be parsed
C27_Witness ==
    \E s \in Sessions :
       /\ ret[s] = Returned("Data", <<"malformed header">>)
       /\ currentKey[s] # NoKey
       /\ Has(transactions, currentKey[s]) /\ Has(timeouts, currentKey[s])
       /\ transactions[currentKey[s]].to # <<>>

\* the state of InitLater is a state of Spec, but for the count of calls
LaterReached ==
    \E s \in Sessions, from \in Senders, msg \in Stored :
        LET key == Key(s, from, SubjectOf(msg))
        IN /\ transactions = Put(EmptyMap, key, processEmailContent(msg, NewTransaction(from, 1)))
           /\ timeouts = Put(EmptyMap, key, 0)
           /\ currentKey[s] = key /\ activeEmail[s] = from
           /\ pc[s] = "idle" /\ lock = "free" /\ local[s] = NoLocal
           /\ sendLog[s] = <<>> /\ ret[s] = Returned("Data", NoErr)
           /\ now = 0 /\ ticks = 0 /\ nano = 1 /\ calls = 2
           /\ cycles[s] = {} /\ handoffs[s] = <<>>
           /\ seen[s] = [stamp |-> 1, addrs |-> msg.to]
           /\ reclaimed = {} /\ ~crashed

CandidateOf(qs) == IF qs = <<>> THEN <<>> ELSE qs[1].content

\* C29: the body candidates are the first inline text/plain part and the
\* first inline text/html part in document order, empty or not: the outgoing
\* body is the content of the first text/html part when that is not empty,
\* and the content of the first text/plain part otherwise; no later part of
\* either type is used.
C29_FirstPartOnly ==
    \A s \in Sessions :
        Sending(s) =>
            LET html == CandidateOf(InlineOf(ParsedOf(s), "text/html"))
                text == CandidateOf(InlineOf(ParsedOf(s), "text/plain"))
                body == local[s].payload.message.body
            IN IF html # <<>>
               THEN /\ body.contentType = "HTML"
                    /\ ~HasImage(ParsedOf(s)) => body.content = html
               ELSE /\ body.contentType = "Text"
                    /\ body.content = text

BodyFound(msg) ==
    FirstContent(InlineOf(msg, "text/html")) # <<>> \/ FirstContent(InlineOf(msg, "text/plain")) # <<>>

\* C30: when reading one part of a well-formed message fails during the
\* walk and a body was found among the parts that could be read, Logout
\* still builds the message and hands it to delivery.
C30_PartFailureDoesNotAbort ==
    [][\A s \in Sessions :
          (/\ Logout(s)
           /\ currentKey[s] # NoKey
           /\ Has(transactions, currentKey[s])
           /\ Valid(RowOf(s))
           /\ ParsedOf(s).wellFormed
           /\ ParsedOf(s).partErr # 0
           /\ BodyFound(ParsedOf(s)))
             => (pc'[s] = "send" /\ handoffs'[s] # handoffs[s]
                 /\ local'[s].payload.message.body.content # <<>>)]_vars

\* C31: Logout returns an error exactly when the row of the session's
\* current key exists and its finalization fails, in the checks, the parse
\* and the walk of processEmail or in sendMail.  Without a current key
\* Logout returns nil, attempts no delivery and leaves the store as it is.
C31_LogoutOutcome ==
    [][\A s \in Sessions :
          /\ (Logout(s) /\ pc'[s] = "idle")
                => /\ ret'[s].op = "Logout"
                   /\ (ret'[s].err # NoErr)
                        <=> (/\ currentKey[s] # NoKey
                             /\ Has(transactions, currentKey[s])
                             /\ \/ ~Valid(RowOf(s))
                                \/ ~ParsedOf(s).wellFormed
                                \/ ParsedOf(s).partErr # 0
                                \/ ~BodyFound(ParsedOf(s)))
                   /\ UNCHANGED <<transactions, timeouts, sendLog>>
          /\ (Logout(s) /\ currentKey[s] = NoKey)
                => (pc'[s] = "idle" /\ ret'[s] = Returned("Logout", NoErr))
          /\ LogoutReturn(s)
                => /\ sendLog[s] # <<>>
                   /\ (ret'[s].err # NoErr) <=> (sendLog[s][Len(sendLog[s])].err # NoErr)
                   /\ (ret'[s].err = NoErr) <=> (sendLog[s][Len(sendLog[s])].status = StatusAccepted)]_vars

\* QUIT reported the delivery error of an active transaction, which stays
\* in the store
C31_Witness ==
    \E s \in Sessions :
       /\ ret[s] = Returned("Logout", <<"failed to send email:", "graph API error:", "ErrorAccessDenied">>)
       /\ currentKey[s] # NoKey /\ Has(transactions, currentKey[s])

\* C32: every attempt of sendMail fetches a token of its own before its
\* POST: each attempt adds one log entry with one token fetch, an attempt
\* whose fetch fails makes no POST and ends with the token error, and an
\* attempt that posted had its own fetch succeed.
C32_TokenPerAttempt ==
    /\ [][\A s \in Sessions, token \in TokenOutcomes, resp \in Responses :
              SendAttempt(s, token, resp)
                => /\ Len(sendLog'[s]) = Len(sendLog[s]) + 1
                   /\ sendLog'[s][Len(sendLog'[s])].token = token
                   /\ token # "ok" => (/\ ~sendLog'[s][Len(sendLog'[s])].posted
                                       /\ local'[s].lastErr = <<"failed to get access token:", "timeout">>
                                       /\ pc'[s] = "sent")]_vars
    /\ [](\A s \in Sessions : \A i \in 1..Len(sendLog[s]) :
            /\ sendLog[s][i].posted <=> sendLog[s][i].token = "ok"
            /\ sendLog[s][i].status # 0 => sendLog[s][i].posted
            /\ sendLog[s][i].token # "ok" => Contains(sendLog[s][i].err, "failed to get access token:"))
    /\ [](\A s \in Sessions : pc[s] = "send" => Len(sendLog[s]) = local[s].attempt)

\* a retried attempt fetched a token again, and the fetch failed: two
\* fetches, one POST
C32_Witness ==
    \E s \in Sessions :
       /\ Len(sendLog[s]) = 2
       /\ sendLog[s][1].token = "ok" /\ sendLog[s][1].posted
       /\ sendLog[s][2].token = "fail" /\ ~sendLog[s][2].posted

Last(q) == q[Len(q)]

\* C33: an attempt succeeds exactly when its POST was answered with status
\* 202; any other status is an error that carries the response body; and
\* sendMail returns nil exactly when one of its attempts, of which there are
\* at most maxRetries, was answered with 202.
C33_SuccessIsExactly202 ==
    /\ [][\A s \in Sessions, token \in TokenOutcomes, resp \in Responses :
              SendAttempt(s, token, resp)
                => /\ (Last(sendLog'[s]).err = NoErr)
                        <=> (token = "ok" /\ resp.received /\ resp.status = 202)
                   /\ (token = "ok" /\ resp.received /\ resp.status # 202)
                        => Last(sendLog'[s]).err = <<"graph API error:", resp.body>>]_vars
    /\ [](\A s \in Sessions :
            pc[s] = "sent"
              => /\ Len(sendLog[s]) <= maxRetries
                 /\ (local[s].result = NoErr)
                      <=> (\E i \in 1..Len(sendLog[s]) : sendLog[s][i].status = 202))

\* a POST answered 200 OK ended sendMail with an error carrying the body
C33_Witness ==
    \E s \in Sessions :
       /\ pc[s] = "sent"
       /\ Last(sendLog[s]).status = 200
       /\ local[s].result = <<"graph API error:", "OK">>

\* C34: when Data has released the store lock and goes on to
\* processEmailContent, the row it passes exists in the row map under the
\* session's current key.
C34_DataPassesExistingRow ==
    \A s \in Sessions :
        pc[s] = "data_process"
          => /\ currentKey[s] = local[s].finalKey
             /\ Has(transactions, currentKey[s])

\* C35: whenever the store lock is free, the row map and the timestamp map
\* have the same keys.
C35_MapsHaveSameKeys ==
    lock = "free" => DOMAIN transactions = DOMAIN timeouts

\* a sweep has removed the expired row of one session and left the fresh
\* row of the other, with its timestamp
C35_Witness ==
    /\ lock = "free"
    /\ reclaimed # {}
    /\ \E k \in DOMAIN transactions : Has(timeouts, k) /\ timeouts[k] = now /\ now > CleanupThreshold

\* C36: the store lock is held only by a session inside the finalization of
\* its Logout, every handler has released it when it returns, and while it
\* is held its holder can take a step (an attempt of sendMail, or the
\* return of Logout) that leads to its release: no state has everyone
\* waiting.
C36_LockReleasedAndProgress ==
    /\ lock \in {"free"} \cup TwoSessions
    /\ \A s \in TwoSessions :
          /\ lock = s <=> pc[s] \in {"send", "sent"}
          /\ pc[s] = "idle" => lock # s
          /\ (lock = s /\ ~crashed)
                => \/ ENABLED (\E token \in TokenOutcomes, resp \in Responses :
                                  SendAttempt(s, token, resp))
                   \/ ENABLED LogoutReturn(s)
          /\ (pc[s] = "sent" /\ ~crashed) => ENABLED (LogoutReturn(s) /\ lock' = "free")

\* Logout returned an error and the lock is free; the other session has a
\* transaction open
C36_Witness ==
    \E s, t \in TwoSessions :
       /\ s # t
       /\ ret[s].op = "Logout" /\ ret[s].err # NoErr
       /\ lock = "free"
       /\ currentKey[t] # NoKey /\ Has(transactions, currentKey[t])

Incomplete(trans) == trans.from = "" \/ trans.to = <<>> \/ trans.dataBuffers = <<>>
InvalidError == <<"invalid email transaction: missing required fields">>

\* C37: delivery is never started for an incomplete transaction.  A Logout
\* whose row has an empty sender, no recipient or no data segment returns
\* the invalid-transaction error with no token fetch and no POST, and a row
\* that is being delivered is complete.
C37_NoDeliveryForIncomplete ==
    /\ [][\A s \in Sessions :
              (/\ Logout(s)
               /\ currentKey[s] # NoKey
               /\ Has(transactions, currentKey[s])
               /\ Incomplete(RowOf(s)))
                 => /\ ret'[s] = Returned("Logout", InvalidError)
                    /\ pc'[s] = "idle"
                    /\ UNCHANGED <<sendLog, handoffs, transactions, timeouts, lock>>]_vars
    /\ [](\A s \in Sessions :
            pc[s] \in {"send", "sent"} => ~Incomplete(RowOf(s)))

\* MAIL, RCPT, QUIT without DATA: QUIT failed and nothing was sent
C37_Witness ==
    \E s \in Sessions :
       /\ ret[s] = Returned("Logout", InvalidError)
       /\ Has(transactions, currentKey[s])
       /\ RowOf(s).to # <<>> /\ RowOf(s).dataBuffers = <<>>
       /\ sendLog[s] = <<>> /\ handoffs[s] = <<>>

\* C38: in the message handed to delivery every recipient of the row is,
\* up to letter case, in the To, Cc or Bcc list, and no Bcc address is, up
\* to letter case, a To or Cc address.
C38_RecipientsClassifiedOnce ==
    \A s \in Sessions :
        Sending(s) =>
            LET m == local[s].payload.message
                open == Elems(Addresses(m.toRecipients)) \cup Elems(Addresses(m.ccRecipients))
                bcc == Elems(Addresses(m.bccRecipients))
            IN /\ \A r \in Elems(RowOf(s).to) : \E a \in open \cup bcc : EqualFold(r, a)
               /\ \A b \in bcc : \A a \in open : ~EqualFold(a, b)

\* a recipient spelled B@CO is covered by the To header b@co, and c@co,
\* named in no header, is blind
C38_Witness ==
    \E s \in Sessions :
       /\ Sending(s)
       /\ RowOf(s).to = <<"B@CO", "c@co">>
       /\ Addresses(local[s].payload.message.toRecipients) = <<"b@co">>
       /\ Addresses(local[s].payload.message.bccRecipients) = <<"c@co">>

StampsIn(txs) == {txs[k].stamp : k \in DOMAIN txs}

\* C39: a transaction is delivered at most once.  No row has two POSTs
\* answered 202 over the life of the session; within one sendMail an
\* accepted POST is the last attempt; the Logout that returns after an
\* accepted POST removes the row from both maps, and a Logout that follows
\* a successful Logout sends nothing.
C39_AtMostOnce ==
    /\ [](\A s \in Sessions :
            /\ \A i, j \in 1..Len(accepted[s]) : accepted[s][i] = accepted[s][j] => i = j
            /\ \A i \in 1..Len(sendLog[s]) :
                  sendLog[s][i].status = StatusAccepted => (i = Len(sendLog[s]) /\ pc[s] = "sent"))
    /\ [][\A s \in Sessions :
              /\ (LogoutReturn(s) /\ Last(sendLog[s]).status = StatusAccepted)
                    => /\ ~InStore(currentKey[s])'
                       /\ RowOf(s).stamp \notin StampsIn(transactions')
              /\ (Logout(s) /\ ret[s] = Returned("Logout", NoErr))
                    => (pc'[s] = "idle" /\ ret'[s].err = NoErr)]_vars

\* a delivery was accepted, the row is gone, and a second QUIT has returned
\* without sending
C39_Witness ==
    \E s \in Sessions :
       /\ accepted[s] = <<1>>
       /\ handoffs[s] = <<1>>
       /\ currentKey[s] # NoKey /\ ~InStore(currentKey[s])
       /\ ret[s] = Returned("Logout", NoErr)
       /\ calls = 4

====
